---- MODULE Spec2Model ----
(***************************************************************************)
(* The quiz aggregate of the learning platform: the Quiz document of       *)
(* src/models/Quiz.js (questions, settings, totalPoints, attempts,         *)
(* analytics, status, publishedAt) with its pre-save hook and its          *)
(* gradeAttempt / updateAnalytics methods, and the quiz handlers of        *)
(* src/routes/quizzes.js (create, submit, update).                         *)
(*                                                                         *)
(* One quiz document is modelled: quizzes are separate documents and no    *)
(* handler touches two of them.                                            *)
(*                                                                         *)
(* The submit handler reads and writes the document through the names it   *)
(* uses in its text (submissions, settings.allowRetake, question.marks,    *)
(* question.correctAnswer, totalMarks, passingMarks); they are modelled as *)
(* fields of the document next to the ones the schema declares.            *)
(*                                                                         *)
(* Numbers: a JavaScript NaN is the value NaN below, an unset (undefined)  *)
(* number is Undef; both are outside the naturals.  A ratio the code       *)
(* computes with "/" is kept exact as a record [n, d].                     *)
(***************************************************************************)
EXTENDS Integers, Sequences, FiniteSets, TLC

\* ------------------------------------------------------------------ bounds
MaxAttemptRecords == 2
MaxGrades == 2
MaxSubmissions == 3
MaxClock == 1
MaxLen == 3
MaxPoints == 10

\* The learners.
Users == {1, 2}
Reqs == {1, 2}

NaN == 0 - 1
Undef == 0 - 2
Infinity == 0 - 3
IsNum(x) == x >= 0

\* ------------------------------------------------------- schema defaults
DefaultMaxAttempts == 3
DefaultPassingScore == 70

\* --------------------------------------------------------- answer values
\* answers[].answer is Mixed: one option id, a list of option ids, a boolean
\* or a text.  Unused fields hold a fixed filler so that records compare.
OptVal(o) == [kind |-> "id", opts |-> <<o>>, b |-> FALSE, s |-> ""]
ListVal(os) == [kind |-> "list", opts |-> os, b |-> FALSE, s |-> ""]
BoolVal(x) == [kind |-> "bool", opts |-> <<>>, b |-> x, s |-> ""]
TextVal(t) == [kind |-> "text", opts |-> <<>>, b |-> FALSE, s |-> t]

\* An answer as stored in attempts[].answers: isCorrect is "undef" until set.
Ans(q, v, pts) ==
  [questionId |-> q, answer |-> v, isCorrect |-> "undef", pointsEarned |-> pts]

\* ------------------------------------------------------------- questions
\* A question subdocument.  options is the set of option ids, correct the
\* ids of the options flagged isCorrect; keyOrder is the stored key of a
\* matching / ordering question (the right item of each left item, the item
\* of each position); tot / cor are analytics.totalAttempts /
\* analytics.correctAttempts.
Question(id, type, points, correct, tf, blanks, key) ==
  [id |-> id, type |-> type, points |-> points, options |-> {1, 2, 3},
   correct |-> correct, trueFalse |-> tf, fillBlanks |-> blanks,
   marks |-> points, correctAnswer |-> key, keyOrder |-> <<>>,
   tot |-> 0, cor |-> 0]

WithKeyOrder(q, key) == [q EXCEPT !.keyOrder = key]

QA == Question(1, "single_choice", 5, {1}, FALSE, {}, OptVal(1))
QB == Question(2, "multiple_choice", 5, {2, 3}, FALSE, {}, ListVal(<<2, 3>>))
QE == Question(3, "essay", 10, {}, FALSE, {}, TextVal(""))
QT == Question(4, "true_false", 5, {}, TRUE, {}, BoolVal(TRUE))
QF == Question(5, "fill_blank", 5, {}, FALSE, {"Paris", "paname "}, TextVal("Paris"))
QM == Question(6, "matching", 5, {}, FALSE, {}, TextVal(""))

\* toLowerCase().trim() on the texts the model uses.
Normalize(t) ==
  CASE t = "Paris" -> "paris"
    [] t = " PARIS " -> "paris"
    [] t = "paris" -> "paris"
    [] t = "paname " -> "paname"
    [] t = "Rome" -> "rome"
    [] OTHER -> t

RECURSIVE SumPoints(_)
SumPoints(qs) ==
  IF qs = <<>> THEN 0 ELSE Head(qs).points + SumPoints(Tail(qs))

\* questions.id(x): the first question with that _id, or none (index 0).
QuestionIndex(qs, id) ==
  IF \E i \in 1..Len(qs) : qs[i].id = id
    THEN CHOOSE i \in 1..Len(qs) :
           qs[i].id = id /\ \A j \in 1..(i - 1) : qs[j].id # id
    ELSE 0

\* ------------------------------------------------- Quiz.js: gradeAttempt
\* selectedOptions: the answer itself when it is an array, else [answer].
\* A value that is no option id is the element 0 (no option has that id).
SelectedOptions(v) ==
  IF v.kind \in {"list", "id"} THEN v.opts ELSE <<0>>

\* isCorrect of the multiple_choice / single_choice case.
ChoiceCorrect(q, v) ==
  LET selectedOptions == SelectedOptions(v)
  IN  /\ Len(selectedOptions) = Cardinality(q.correct)
      /\ \A i \in 1..Len(selectedOptions) : selectedOptions[i] \in q.correct

\* EssayCorrect with a strict comparison.
EssayCorrect_Strict(q, pointsEarned) == pointsEarned * 10 > q.points * 6

\* pointsEarned >= question.points * 0.6, on tenths.
EssayCorrect(q, pointsEarned) == pointsEarned * 10 >= q.points * 6

BoolStr(b) == IF b THEN "true" ELSE "false"

\* The switch on question.type for one answer: the answer's new isCorrect and
\* pointsEarned, or threw when the case raises a TypeError
\* (answer.answer.toLowerCase on a value that is no string).
GradeAnswer(q, a) ==
  CASE q.type \in {"multiple_choice", "single_choice"} ->
         LET c == ChoiceCorrect(q, a.answer)
         IN  [isCorrect |-> BoolStr(c),
              pointsEarned |-> IF c THEN q.points ELSE 0, threw |-> FALSE]
    [] q.type = "true_false" ->
         LET c == a.answer.kind = "bool" /\ a.answer.b = q.trueFalse
         IN  [isCorrect |-> BoolStr(c),
              pointsEarned |-> IF c THEN q.points ELSE 0, threw |-> FALSE]
    [] q.type = "fill_blank" ->
         IF a.answer.kind # "text"
           THEN [isCorrect |-> a.isCorrect, pointsEarned |-> a.pointsEarned,
                 threw |-> TRUE]
           ELSE LET c == \E correct \in q.fillBlanks :
                           Normalize(correct) = Normalize(a.answer.s)
                IN  [isCorrect |-> BoolStr(c),
                     pointsEarned |-> IF c THEN q.points ELSE 0,
                     threw |-> FALSE]
    [] q.type \in {"essay", "code"} ->
         [isCorrect |-> BoolStr(EssayCorrect(q, a.pointsEarned)),
          pointsEarned |-> a.pointsEarned, threw |-> FALSE]
    [] OTHER ->
         [isCorrect |-> a.isCorrect, pointsEarned |-> a.pointsEarned,
          threw |-> FALSE]

\* The forEach over attempt.answers from answer k on: the questions with
\* their counters, the answers, totalPointsEarned, and whether a case threw
\* (the loop stops there, with what it had changed so far).
RECURSIVE GradeLoop(_, _, _, _)
GradeLoop(qs, as, k, total) ==
  IF k > Len(as)
    THEN [questions |-> qs, answers |-> as, total |-> total, threw |-> FALSE]
    ELSE LET qi == QuestionIndex(qs, as[k].questionId)
         IN  IF qi = 0
               THEN GradeLoop(qs, as, k + 1, total)
               ELSE LET g == GradeAnswer(qs[qi], as[k])
                        a2 == [as[k] EXCEPT !.isCorrect = g.isCorrect,
                                            !.pointsEarned = g.pointsEarned]
                        q2 == [qs[qi] EXCEPT
                                 !.tot = @ + 1,
                                 !.cor = IF g.isCorrect = "true" THEN @ + 1 ELSE @]
                    IN  IF g.threw
                          THEN [questions |-> qs, answers |-> as,
                                total |-> total, threw |-> TRUE]
                          ELSE GradeLoop([qs EXCEPT ![qi] = q2],
                                         [as EXCEPT ![k] = a2],
                                         k + 1, total + g.pointsEarned)

\* Math.round((totalPointsEarned / totalPoints) * 100).  Math.round rounds a
\* half up; the quotient is exact in double arithmetic for the point values
\* of the model.  0 / 0 is NaN and x / 0 is Infinity.
RoundPercent(n, d) == (200 * n + d) \div (2 * d)

ScoreOf(totalPointsEarned, tp) ==
  IF tp = 0
    THEN IF totalPointsEarned = 0 THEN NaN ELSE Infinity
    ELSE RoundPercent(totalPointsEarned, tp)

\* ----------------------------------------------- Quiz.js: updateAnalytics
RECURSIVE SumSeq(_)
SumSeq(s) == IF s = <<>> THEN 0 ELSE Head(s) + SumSeq(Tail(s))

IsSubmitted(a) == a.status = "submitted"

SubmittedAttempts(atts) == SelectSeq(atts, IsSubmitted)

ScoresOf(atts) == [i \in 1..Len(atts) |-> atts[i].score]

TimesOf(atts) == [i \in 1..Len(atts) |-> atts[i].timeSpent]

AllNum(s) == \A i \in 1..Len(s) : IsNum(s[i])

\* scores.reduce((a, b) => a + b, 0): NaN once a score is no finite number.
SumScores(s) == IF AllNum(s) THEN SumSeq(s) ELSE NaN

\* Math.max(...scores) and Math.min(...scores), for the scores of the model
\* (finite, NaN or undefined; an undefined or NaN argument gives NaN).
MaxScore(s) ==
  IF AllNum(s)
    THEN CHOOSE m \in {s[i] : i \in 1..Len(s)} : \A i \in 1..Len(s) : s[i] <= m
    ELSE NaN

MinScore(s) ==
  IF AllNum(s)
    THEN CHOOSE m \in {s[i] : i \in 1..Len(s)} : \A i \in 1..Len(s) : s[i] >= m
    ELSE NaN

\* s >= passingScore in JavaScript: false for NaN and undefined.
ScoreAtLeast(s, p) == s = Infinity \/ (IsNum(s) /\ s >= p)

PassCount(s, p) == Cardinality({i \in 1..Len(s) : ScoreAtLeast(s[i], p)})

\* AbandonedCount that counts every attempt that is no longer in progress.
AbandonedCount_Ended(atts) ==
  Cardinality({i \in 1..Len(atts) : atts[i].status # "in_progress"})

AbandonedCount(atts) ==
  Cardinality({i \in 1..Len(atts) : atts[i].status = "abandoned"})

UpdateAnalytics(atts, st, an) ==
  LET submittedAttempts == SubmittedAttempts(atts)
      scores == ScoresOf(submittedAttempts)
      n == Len(submittedAttempts)
      an1 == IF n > 0
               THEN [an EXCEPT
                       !.totalAttempts = n,
                       !.averageScore = [n |-> SumScores(scores), d |-> n],
                       !.highestScore = MaxScore(scores),
                       !.lowestScore = MinScore(scores),
                       !.passRate = [n |-> PassCount(scores, st.passingScore) * 100,
                                     d |-> n],
                       !.averageTime = [n |-> SumSeq(TimesOf(submittedAttempts)),
                                        d |-> 60 * n]]
               ELSE [an EXCEPT !.totalAttempts = n]
  IN  [an1 EXCEPT !.abandonmentRate =
                    [n |-> AbandonedCount(atts) * 100, d |-> Len(atts)]]

\* The schema defaults of analytics (all 0).
Zero == [n |-> 0, d |-> 1]

DefaultAnalytics ==
  [totalAttempts |-> 0, averageScore |-> Zero, highestScore |-> 0,
   lowestScore |-> 0, passRate |-> Zero, averageTime |-> Zero,
   abandonmentRate |-> Zero]

\* gradeAttempt(attemptId) on the attempt at index i of a document
\* [questions, attempts, totalPoints, settings, analytics]; sc is the value
\* the assignment to attempt.score leaves.  A loop that threw leaves the
\* document as changed so far and the method does not return.
GradeAttempt(doc, i, sc) ==
  LET attempt == doc.attempts[i]
      r == GradeLoop(doc.questions, attempt.answers, 1, 0)
      graded == [attempt EXCEPT !.answers = r.answers,
                                !.totalPointsEarned = r.total,
                                !.score = sc,
                                !.status = "submitted"]
      atts == [doc.attempts EXCEPT ![i] = graded]
  IN  IF r.threw
        THEN [doc EXCEPT !.questions = r.questions,
                         !.attempts = [doc.attempts EXCEPT
                                         ![i] = [attempt EXCEPT !.answers = r.answers]]]
        ELSE [doc EXCEPT !.questions = r.questions,
                         !.attempts = atts,
                         !.analytics = UpdateAnalytics(atts, doc.settings,
                                                       doc.analytics)]

GradeThrows(doc, i) ==
  GradeLoop(doc.questions, doc.attempts[i].answers, 1, 0).threw

\* The score gradeAttempt computes for attempt i.
ComputedScore(doc, i) ==
  ScoreOf(GradeLoop(doc.questions, doc.attempts[i].answers, 1, 0).total,
          doc.totalPoints)

\* What attempt.score holds after the assignment: the computed number; a NaN
\* is refused by the schema's Number cast, and the path then keeps either
\* the NaN or the value it had.
ScoreOutcomes(doc, i) ==
  LET c == ComputedScore(doc, i)
  IN  IF c = NaN THEN {NaN, doc.attempts[i].score} ELSE {c}

\* ------------------------------------------------------------ the inputs
\* Question lists a create or update request carries.
QuestionLists == {<<QA, QB>>, <<QE, QT>>}

\* Question lists with a malformed question: a multiple_choice question
\* with one option, one with no option flagged correct, and a question
\* without marks.
MalformedLists ==
  { <<[QB EXCEPT !.options = {2}, !.correct = {2}]>>,
    <<QA, [QB EXCEPT !.correct = {}]>>,
    <<[QT EXCEPT !.marks = 0]>> }

\* An update may also carry an empty list (create refuses it).
UpdateQuestionLists == QuestionLists \cup {<<>>}

\* settings objects a request carries (maxAttempts >= 1, passingScore in
\* 0..100, as the schema validates on save).
\* showResults holds its schema default unless a request sets it.
Settings(m, p, r) ==
  [maxAttempts |-> m, passingScore |-> p, allowRetake |-> r,
   showResults |-> "after_submission"]

WithShowResults(st, sr) == [st EXCEPT !.showResults = sr]

SettingsChoices ==
  {WithShowResults(Settings(1, 70, TRUE), "never"), Settings(2, 50, TRUE),
   Settings(2, 70, FALSE), Settings(1, 70, FALSE)}

\* totalMarks / passingMarks a request carries.
MarksChoices == {[totalMarks |-> 10, passingMarks |-> 5]}

\* totalPoints values a create request may carry in its body.
BodyTotalPoints == {0, 7}

\* Answer lists of an attempt, with the attempt's timeSpent (seconds).
AnswersInput(as, t) == [answers |-> as, timeSpent |-> t]

AttemptInputs ==
  { AnswersInput(<<Ans(1, OptVal(1), 0), Ans(2, ListVal(<<2>>), 0)>>, 60),
    AnswersInput(<<Ans(1, ListVal(<<1>>), 0), Ans(1, OptVal(1), 0),
                   Ans(2, ListVal(<<3, 2>>), 0)>>, 90),
    AnswersInput(<<Ans(3, TextVal("Rome"), 7), Ans(4, BoolVal(TRUE), 0)>>, 120),
    AnswersInput(<<Ans(3, TextVal("Rome"), 5), Ans(9, OptVal(1), 3)>>, 30) }

\* ------------------------------------------------------------- the state
VARIABLES
  status,        \* "none" (no quiz yet), "draft", "published", "archived"
  publishedAt,   \* Undef or the clock value of the first publication
  clock,         \* the date new Date() returns
  questions,     \* the question subdocuments, in order
  settings,      \* settings.maxAttempts / passingScore / allowRetake
  marks,         \* totalMarks / passingMarks
  totalPoints,
  attempts,      \* the attempt subdocuments, in order
  analytics,     \* the quiz analytics
  submissions,   \* the records the submit handler pushes
  reqs,          \* the submit requests in flight
  grades         \* number of gradeAttempt calls so far

vars ==
  <<status, publishedAt, clock, questions, settings, marks, totalPoints,
    attempts, analytics, submissions, reqs, grades>>

\* A submission record as the submit handler builds it: userId, score and
\* passed; the handler gives the record no attempt number, so reading
\* attemptNumber on it yields undefined.
Submission(u, total, pct, passed) ==
  [userId |-> u, score |-> total, percentage |-> pct, passed |-> passed,
   attemptNumber |-> Undef]

\* A request that is not running; resp is the response of the request that
\* ran last ("none" before the first), detail whether that response carried
\* the per-answer detail, count its totalAttempts.
IdleWith(resp) ==
  [pc |-> "idle", sub |-> Submission(0, 0, 0, FALSE), resp |-> resp,
   detail |-> FALSE, count |-> 0]

IdleReq == IdleWith("none")

Init ==
  /\ status = "none"
  /\ publishedAt = Undef
  /\ clock = 1
  /\ questions = <<>>
  /\ settings = Settings(DefaultMaxAttempts, DefaultPassingScore, FALSE)
  /\ marks = [totalMarks |-> 0, passingMarks |-> 0]
  /\ totalPoints = 0
  /\ attempts = <<>>
  /\ analytics = DefaultAnalytics
  /\ submissions = <<>>
  /\ reqs = [r \in Reqs |-> IdleReq]
  /\ grades = 0

\* The document gradeAttempt works on.
Doc ==
  [questions |-> questions, attempts |-> attempts, totalPoints |-> totalPoints,
   settings |-> settings, analytics |-> analytics]

\* --------------------------------------------------- Quiz.js: pre('save')
\* A pre-save hook that keeps the totalPoints it finds.
PreSaveTotalPoints_Keep(qs, tp) == tp

\* this.totalPoints = this.questions.reduce(...): what the body or the
\* document held before (tp) is overwritten.
PreSaveTotalPoints(qs, tp) == SumPoints(qs)

\* PreSavePublishedAt that stamps every publication.
PreSavePublishedAt_Always(statusModified, st, pa, now) ==
  IF statusModified /\ st = "published" THEN now ELSE pa

\* publishedAt is set when status was modified to 'published' and no
\* publishedAt is set yet.
PreSavePublishedAt(statusModified, st, pa, now) ==
  IF statusModified /\ st = "published" /\ pa = Undef THEN now ELSE pa

\* new Date() moves on.
Tick ==
  /\ clock < MaxClock + 1
  /\ clock' = clock + 1
  /\ UNCHANGED <<status, publishedAt, questions, settings, marks, totalPoints,
                 attempts, analytics, submissions, reqs, grades>>

\* ------------------------------------------ routes/quizzes.js: POST /quizzes
\* The per-question check of the handler: question, type and marks present,
\* and options and correctAnswer present for multiple_choice / true_false
\* (a question without an options field has the empty set here).  Neither
\* the number of options nor their isCorrect flags are looked at.
QuestionAccepted(q) ==
  /\ q.marks # 0
  /\ q.type \in {"multiple_choice", "true_false"} => q.options # {}

\* new Quiz({...req.body}) and save(): the body's questions, settings,
\* totalPoints and status, then the pre-save hook.
CreateQuiz(qs, st, mk, tp, s) ==
  /\ status = "none"
  /\ Len(qs) >= 1
  /\ \A i \in 1..Len(qs) : QuestionAccepted(qs[i])
  /\ status' = s
  /\ publishedAt' = PreSavePublishedAt(TRUE, s, Undef, clock)
  /\ questions' = qs
  /\ settings' = st
  /\ marks' = mk
  /\ totalPoints' = PreSaveTotalPoints(qs, tp)
  /\ attempts' = <<>>
  /\ analytics' = DefaultAnalytics
  /\ UNCHANGED <<clock, submissions, reqs, grades>>

\* ------------------------------------- routes/quizzes.js: PUT /quizzes/:id
\* Each of questions, settings, status is assigned when the body has it,
\* then save() runs the pre-save hook.
UpdateQuiz(hasQ, qs, hasS, st, hasStatus, s) ==
  /\ status # "none"
  /\ questions' = IF hasQ THEN qs ELSE questions
  /\ settings' = IF hasS THEN st ELSE settings
  /\ status' = IF hasStatus THEN s ELSE status
  /\ publishedAt' = PreSavePublishedAt(hasStatus /\ s # status, status',
                                       publishedAt, clock)
  /\ totalPoints' = PreSaveTotalPoints(questions', totalPoints)
  /\ UNCHANGED <<clock, marks, attempts, analytics, submissions, reqs, grades>>

\* --------------------------------------------- the attempt operations
\* The service operations that create and end attempts (startAttempt,
\* submitAttempt, expireAttempt, abandonAttempt) are not in the source files;
\* they follow the specification's sections 4.2 and 4.5, and call the
\* gradeAttempt / updateAnalytics methods of Quiz.js.
AttemptsOf(u) == {i \in 1..Len(attempts) : attempts[i].userId = u}

Terminal(a) == a.status \in {"submitted", "auto_submitted", "abandoned"}

\* StartDecision without the check for an attempt in progress.
StartDecision_NoInProgressCheck(u) ==
  CASE status # "published" -> "QuizNotPublished"
    [] Cardinality(AttemptsOf(u)) >= settings.maxAttempts ->
         "AttemptLimitExceeded"
    [] ~settings.allowRetake /\ \E i \in AttemptsOf(u) : Terminal(attempts[i]) ->
         "RetakeNotAllowed"
    [] OTHER -> "ok"

\* The outcome of a start by learner u: the checks of section 4.2, in order.
StartDecision(u) ==
  CASE status # "published" -> "QuizNotPublished"
    [] \E i \in AttemptsOf(u) : attempts[i].status = "in_progress" ->
         "AttemptAlreadyInProgress"
    [] Cardinality(AttemptsOf(u)) >= settings.maxAttempts ->
         "AttemptLimitExceeded"
    [] ~settings.allowRetake /\ \E i \in AttemptsOf(u) : Terminal(attempts[i]) ->
         "RetakeNotAllowed"
    [] OTHER -> "ok"

\* An attempt subdocument with the schema defaults (status in_progress,
\* totalPointsEarned 0, no score).
FreshAttempt(u, n, inp) ==
  [userId |-> u, answers |-> inp.answers, score |-> Undef,
   totalPointsEarned |-> 0, status |-> "in_progress",
   attemptNumber |-> n, timeSpent |-> inp.timeSpent]

NewAttempt(u, inp) == FreshAttempt(u, Cardinality(AttemptsOf(u)) + 1, inp)

StartAttempt(u, inp) ==
  /\ status # "none"
  /\ LET d == StartDecision(u)
     IN  /\ d = "ok" => Len(attempts) < MaxAttemptRecords
         /\ attempts' = IF d = "ok" THEN Append(attempts, NewAttempt(u, inp))
                                    ELSE attempts
  /\ UNCHANGED <<status, publishedAt, clock, questions, settings, marks,
                 totalPoints, analytics, submissions, reqs, grades>>

\* quiz.gradeAttempt(attemptId) on any attempt of the quiz.
GradeAttemptCall(i) ==
  /\ i \in 1..Len(attempts)
  /\ grades < MaxGrades
  /\ \E sc \in ScoreOutcomes(Doc, i) :
       LET d == GradeAttempt(Doc, i, sc)
       IN  /\ questions' = d.questions
           /\ attempts' = d.attempts
           /\ analytics' = d.analytics
  /\ grades' = grades + 1
  /\ UNCHANGED <<status, publishedAt, clock, settings, marks, totalPoints,
                 submissions, reqs>>

\* submitAttempt: valid from in_progress only, then gradeAttempt.
SubmitAttempt(i) ==
  /\ i \in 1..Len(attempts)
  /\ IF attempts[i].status = "in_progress"
       THEN /\ grades < MaxGrades
            /\ \E sc \in ScoreOutcomes(Doc, i) :
                 LET d == GradeAttempt(Doc, i, sc)
                 IN  /\ questions' = d.questions
                     /\ attempts' = d.attempts
                     /\ analytics' = d.analytics
            /\ grades' = grades + 1
       ELSE UNCHANGED <<questions, attempts, analytics, grades>>
  /\ UNCHANGED <<status, publishedAt, clock, settings, marks, totalPoints,
                 submissions, reqs>>

\* expireAttempt: as submitAttempt, ending in auto_submitted.
ExpireAttempt(i) ==
  /\ i \in 1..Len(attempts)
  /\ IF attempts[i].status = "in_progress"
       THEN /\ grades < MaxGrades
            /\ ~GradeThrows(Doc, i)
            /\ \E sc \in ScoreOutcomes(Doc, i) :
                 LET d == GradeAttempt(Doc, i, sc)
                 IN  /\ questions' = d.questions
                     /\ attempts' = [d.attempts EXCEPT ![i].status = "auto_submitted"]
                     /\ analytics' = d.analytics
            /\ grades' = grades + 1
       ELSE UNCHANGED <<questions, attempts, analytics, grades>>
  /\ UNCHANGED <<status, publishedAt, clock, settings, marks, totalPoints,
                 submissions, reqs>>

\* AbandonAttempt that leaves the analytics as they are.
AbandonAttempt_NoRecompute(i) ==
  /\ i \in 1..Len(attempts)
  /\ IF attempts[i].status = "in_progress"
       THEN /\ attempts' = [attempts EXCEPT ![i].status = "abandoned"]
            /\ analytics' = analytics
       ELSE UNCHANGED <<attempts, analytics>>
  /\ UNCHANGED <<status, publishedAt, clock, questions, settings, marks,
                 totalPoints, submissions, reqs, grades>>

\* abandonAttempt: no grading, then updateAnalytics.
AbandonAttempt(i) ==
  /\ i \in 1..Len(attempts)
  /\ IF attempts[i].status = "in_progress"
       THEN /\ attempts' = [attempts EXCEPT ![i].status = "abandoned"]
            /\ analytics' = UpdateAnalytics(attempts', settings, analytics)
       ELSE UNCHANGED <<attempts, analytics>>
  /\ UNCHANGED <<status, publishedAt, clock, questions, settings, marks,
                 totalPoints, submissions, reqs, grades>>

\* ------------------------------ routes/quizzes.js: POST /quizzes/:id/submit
UserSubmissions(subs, u) ==
  {i \in 1..Len(subs) : subs[i].userId = u}

\* question.correctAnswer === userAnswer.answer: equal primitives; two arrays
\* are never the same object.
StrictEq(x, y) == x.kind # "list" /\ x = y

\* The score of one answer in the handler's loop (0 when the question is not
\* in the quiz: the answer is skipped).
RouteAnswerScore(qs, a) ==
  LET qi == QuestionIndex(qs, a.questionId)
  IN  IF qi = 0 THEN 0
      ELSE IF /\ qs[qi].type \in {"multiple_choice", "true_false"}
              /\ StrictEq(qs[qi].correctAnswer, a.answer)
             THEN qs[qi].marks
             ELSE 0

RECURSIVE RouteTotalScore(_, _)
RouteTotalScore(qs, as) ==
  IF as = <<>> THEN 0
  ELSE RouteAnswerScore(qs, Head(as)) + RouteTotalScore(qs, Tail(as))

\* SubmitDecision that refuses every further submission, whatever
\* settings.allowRetake holds.
SubmitDecision_NoRetakeFlag(subs, st, u) ==
  LET n == Cardinality(UserSubmissions(subs, u))
  IN  CASE n > 0 -> "Quiz can only be attempted once"
        [] n >= st.maxAttempts -> "Maximum attempts reached"
        [] OTHER -> "ok"

\* (totalScore / totalMarks * 100).toFixed(2): the percentage rounded to two
\* decimals, kept as a count of hundredths ("50.00" is 5000); "NaN" and
\* "Infinity" when totalMarks is 0.
Percentage(total, totalMarks) ==
  IF totalMarks = 0
    THEN IF total = 0 THEN NaN ELSE Infinity
    ELSE (20000 * total + totalMarks) \div (2 * totalMarks)

\* if (quiz.settings.showResults): a string is truthy unless it is empty.
ShowsAnswers(showResults) == showResults # ""

\* The two checks after findById.
SubmitDecision(subs, st, u) ==
  LET n == Cardinality(UserSubmissions(subs, u))
  IN  CASE ~st.allowRetake /\ n > 0 -> "Quiz can only be attempted once"
        [] n >= st.maxAttempts -> "Maximum attempts reached"
        [] OTHER -> "ok"

InFlight == Cardinality({r \in Reqs : reqs[r].pc = "saving"})

\* From findById to the push: the document is read, the checks run (a
\* failed check answers 400 with its message), the answers are scored, the
\* submission is built.  The handler then awaits quiz.save().
SubmitBegin(r, u, as) ==
  /\ status # "none"
  /\ reqs[r].pc = "idle"
  /\ Len(as) >= 1
  /\ LET d == SubmitDecision(submissions, settings, u)
         total == RouteTotalScore(questions, as)
         sub == Submission(u, total, Percentage(total, marks.totalMarks),
                           total >= marks.passingMarks)
     IN  /\ d = "ok" => Len(submissions) + InFlight < MaxSubmissions
         /\ reqs' = [reqs EXCEPT ![r] =
                       IF d = "ok"
                         THEN [pc |-> "saving", sub |-> sub, resp |-> "none",
                               detail |-> ShowsAnswers(settings.showResults),
                               count |-> 0]
                         ELSE IdleWith(d)]
  /\ UNCHANGED <<status, publishedAt, clock, questions, settings, marks,
                 totalPoints, attempts, analytics, submissions, grades>>

\* quiz.save(): the pushed submission is appended to the stored array
\* ($push), whatever was stored since this request read the document.  The
\* handler goes on to the learner's progress record.
SubmitSave(r) ==
  /\ reqs[r].pc = "saving"
  /\ submissions' = Append(submissions, reqs[r].sub)
  /\ reqs' = [reqs EXCEPT ![r].pc = "progress"]
  /\ UNCHANGED <<status, publishedAt, clock, questions, settings, marks,
                 totalPoints, attempts, analytics, grades>>

\* SubmitRespond that takes the saved submission back when the progress
\* update failed.
SubmitRespond_Rollback(r, failed) ==
  /\ reqs[r].pc = "progress"
  /\ reqs' = [reqs EXCEPT ![r] =
                IF failed THEN IdleWith("500")
                ELSE [IdleWith("200") EXCEPT !.detail = reqs[r].detail]]
  /\ submissions' = IF failed /\ Len(submissions) > 0
                      THEN SubSeq(submissions, 1, Len(submissions) - 1)
                      ELSE submissions
  /\ UNCHANGED <<status, publishedAt, clock, questions, settings, marks,
                 totalPoints, attempts, analytics, grades>>

\* After the save: the UserProgress lookup and save, then the response, with
\* the graded answers when the showResults of the loaded quiz is truthy.  A
\* rejected UserProgress promise (failed) goes through asyncHandler to the
\* error middleware (500); nothing in the handler touches the quiz again.
SubmitRespond(r, failed) ==
  /\ reqs[r].pc = "progress"
  /\ reqs' = [reqs EXCEPT ![r] =
                IF failed THEN IdleWith("500")
                ELSE [IdleWith("200") EXCEPT !.detail = reqs[r].detail]]
  /\ UNCHANGED <<status, publishedAt, clock, questions, settings, marks,
                 totalPoints, attempts, analytics, submissions, grades>>

\* ------------------------- routes/quizzes.js: GET /quizzes/:id/results
\* userSubmissions.reduce((best, current) =>
\*   current.score > best.score ? current : best), from the first on.
RECURSIVE BestFrom(_, _)
BestFrom(best, rest) ==
  IF rest = <<>> THEN best
  ELSE BestFrom(IF Head(rest).score > best.score THEN Head(rest) ELSE best,
                Tail(rest))

\* BestSubmission that takes the learner's first submission.
BestSubmission_First(subs, u) ==
  Head(SelectSeq(subs, LAMBDA x : x.userId = u))

\* The best of the learner's submissions (the learner has one at least).
BestSubmission(subs, u) ==
  LET userSubmissions == SelectSeq(subs, LAMBDA x : x.userId = u)
  IN  BestFrom(Head(userSubmissions), Tail(userSubmissions))

\* The handler: 404 'No submissions found' for a learner without a
\* submission, else totalAttempts and the best submission's score,
\* percentage and passed.
GetResults(r, u) ==
  /\ status # "none"
  /\ reqs[r].pc = "idle"
  /\ LET n == Cardinality(UserSubmissions(submissions, u))
     IN  reqs' = [reqs EXCEPT ![r] =
                   IF n = 0 THEN IdleWith("No submissions found")
                   ELSE [IdleWith("results") EXCEPT
                           !.sub = BestSubmission(submissions, u),
                           !.count = n]]
  /\ UNCHANGED <<status, publishedAt, clock, questions, settings, marks,
                 totalPoints, attempts, analytics, submissions, grades>>

\* ------------------------------------------------------ specifications
CreateOps ==
  \E qs \in QuestionLists, st \in SettingsChoices, mk \in MarksChoices,
     tp \in BodyTotalPoints, s \in {"draft", "published"} :
    CreateQuiz(qs, st, mk, tp, s)

UpdateQuestionsOps ==
  \E qs \in UpdateQuestionLists :
    UpdateQuiz(TRUE, qs, FALSE, settings, FALSE, status)

UpdateSettingsOps ==
  \E st \in SettingsChoices :
    UpdateQuiz(FALSE, questions, TRUE, st, FALSE, status)

UpdateStatusOps ==
  \E s \in {"draft", "published", "archived"} :
    UpdateQuiz(FALSE, questions, FALSE, settings, TRUE, s)

AttemptOps ==
  \/ \E u \in Users, inp \in AttemptInputs : StartAttempt(u, inp)
  \/ \E i \in 1..MaxAttemptRecords : GradeAttemptCall(i)
  \/ \E i \in 1..MaxAttemptRecords : SubmitAttempt(i)
  \/ \E i \in 1..MaxAttemptRecords : ExpireAttempt(i)
  \/ \E i \in 1..MaxAttemptRecords : AbandonAttempt(i)

RouteOps ==
  \/ \E r \in Reqs, u \in Users, inp \in AttemptInputs : SubmitBegin(r, u, inp.answers)
  \/ \E r \in Reqs : SubmitSave(r)
  \/ \E r \in Reqs, failed \in BOOLEAN : SubmitRespond(r, failed)

\* The quiz with its attempt lifecycle.
Next == CreateOps \/ UpdateQuestionsOps \/ UpdateSettingsOps \/ AttemptOps

Spec == Init /\ [][Next]_vars

\* The submit handler's requests on a quiz as created.
NextSubmit == CreateOps \/ RouteOps

SpecSubmit == Init /\ [][NextSubmit]_vars

\* Create requests with any question list, well-formed or not.
CreateAnyOps ==
  \E qs \in QuestionLists \cup MalformedLists, st \in SettingsChoices,
     mk \in MarksChoices, tp \in BodyTotalPoints, s \in {"draft", "published"} :
    CreateQuiz(qs, st, mk, tp, s)

\* Creation from any request, then updates of the quiz.
NextCreate == CreateAnyOps \/ UpdateQuestionsOps \/ UpdateStatusOps \/ Tick

SpecCreate == Init /\ [][NextCreate]_vars

ResultsOps == \E r \in Reqs, u \in Users : GetResults(r, u)

\* Submit requests and results requests on a quiz as created.
NextResults == CreateOps \/ RouteOps \/ ResultsOps

SpecResults == Init /\ [][NextResults]_vars

\* The submit handler's requests, with the quiz being updated.
NextRoute ==
  CreateOps \/ UpdateQuestionsOps \/ UpdateSettingsOps \/ UpdateStatusOps \/ RouteOps

SpecRoute == Init /\ [][NextRoute]_vars

\* The quiz's publication, with time passing.
NextPublish == CreateOps \/ UpdateQuestionsOps \/ UpdateStatusOps \/ Tick

SpecPublish == Init /\ [][NextPublish]_vars

\* ------------------------------------------- grading one answer, alone
\* A quiz of one question and one attempt holding one answer to it, for
\* every choice key with every submitted value up to MaxLen option ids, and
\* every essay / code question up to MaxPoints points with every supplied
\* pointsEarned.
Options == {1, 2, 3}

SeqsUpTo(S, n) == UNION {[1..k -> S] : k \in 0..n}

ChoiceCases ==
  { [q |-> Question(1, t, 5, K, FALSE, {}, OptVal(1)), a |-> Ans(1, v, 0)] :
      t \in {"multiple_choice", "single_choice"}, K \in SUBSET Options,
      v \in {OptVal(o) : o \in Options}
            \cup {ListVal(os) : os \in SeqsUpTo(Options, MaxLen)} }

EssayCases ==
  { [q |-> Question(3, t, pts, {}, FALSE, {}, TextVal("")),
     a |-> Ans(3, TextVal(txt), e)] :
      t \in {"essay", "code"}, pts \in 1..MaxPoints, e \in 0..MaxPoints,
      txt \in {"Rome", "Paris"} }

\* Matching / ordering questions with a key over two items, and every
\* submitted sequence of up to two items.
OrderCases ==
  { [q |-> WithKeyOrder(Question(6, t, 5, {}, FALSE, {}, TextVal("")), key),
     a |-> Ans(6, ListVal(v), 0)] :
      t \in {"matching", "ordering"}, key \in {<<1, 2>>, <<2, 1>>},
      v \in SeqsUpTo({1, 2}, 2) }

GradeCases == ChoiceCases \cup EssayCases \cup OrderCases

InitGrade ==
  \E c \in GradeCases :
    /\ status = "published"
    /\ publishedAt = 1
    /\ clock = 1
    /\ questions = <<c.q>>
    /\ settings = Settings(DefaultMaxAttempts, DefaultPassingScore, FALSE)
    /\ marks = [totalMarks |-> 0, passingMarks |-> 0]
    /\ totalPoints = PreSaveTotalPoints(<<c.q>>, 0)
    /\ attempts = <<FreshAttempt(1, 1, AnswersInput(<<c.a>>, 60))>>
    /\ analytics = DefaultAnalytics
    /\ submissions = <<>>
    /\ reqs = [r \in Reqs |-> IdleReq]
    /\ grades = 0

NextGrade == GradeAttemptCall(1)

SpecGrade == InitGrade /\ [][NextGrade]_vars

\* ================================================================ claims

\* C1: for every learner, the number of the learner's submissions recorded
\* on the quiz is at most settings.maxAttempts, under every interleaving of
\* submit requests (two requests may both read the quiz before either saves).
C1_AttemptCeiling ==
  \A u \in Users :
    Cardinality(UserSubmissions(submissions, u)) <= settings.maxAttempts

\* C2: a learner never has two in_progress attempts on the quiz (a start
\* while one is in progress adds no attempt).
InProgressOf(u) == {i \in AttemptsOf(u) : attempts[i].status = "in_progress"}

C3_TerminalImmutable ==
  [][\A i \in 1..Len(attempts) :
       Terminal(attempts[i]) =>
         /\ attempts'[i].status = attempts[i].status
         /\ attempts'[i].score = attempts[i].score]_vars

\* C4: gradeAttempt on a submitted, auto_submitted or abandoned attempt
\* changes nothing: not the attempt's score and totalPointsEarned, not a
\* question's totalAttempts / correctAttempts, not the quiz analytics.
C4_RegradeRejected ==
  [][\A i \in 1..Len(attempts) :
       (Terminal(attempts[i]) /\ GradeAttemptCall(i)) =>
         /\ attempts'[i].score = attempts[i].score
         /\ attempts'[i].totalPointsEarned = attempts[i].totalPointsEarned
         /\ questions' = questions
         /\ analytics' = analytics]_vars

\* C5: totalPoints is the sum of the points of the current questions after
\* every create and update, whatever totalPoints the request carried; so the
\* denominator gradeAttempt reads is that sum.
RECURSIVE PointsUpTo(_, _)
PointsUpTo(qs, n) == IF n = 0 THEN 0 ELSE PointsUpTo(qs, n - 1) + qs[n].points

C5_TotalPoints ==
  status # "none" => totalPoints = PointsUpTo(questions, Len(questions))

\* C5 witness: an attempt was graded after the question list was replaced by
\* one of another total than the quiz was created with.
C5_Witness ==
  /\ totalPoints = 15
  /\ \E i \in 1..Len(attempts) :
       /\ attempts[i].status = "submitted"
       /\ attempts[i].score = 50
  /\ \E i \in 1..Len(attempts) :
       /\ attempts[i].status = "submitted"
       /\ attempts[i].score = 80

\* C6: a choice answer is graded correct iff the set of submitted option
\* ids equals the set of option ids flagged correct, with question.points
\* when correct and 0 otherwise.
SubmittedSet(v) == {v.opts[j] : j \in 1..Len(v.opts)}

C6_ChoiceSetEquality ==
  \A i \in 1..Len(attempts) :
    \A k \in 1..Len(attempts[i].answers) :
      LET a == attempts[i].answers[k]
          qi == QuestionIndex(questions, a.questionId)
      IN  (/\ attempts[i].status = "submitted"
           /\ qi # 0
           /\ questions[qi].type \in {"multiple_choice", "single_choice"})
          => /\ (a.isCorrect = "true") <=>
                  (SubmittedSet(a.answer) = questions[qi].correct)
             /\ a.pointsEarned =
                  IF SubmittedSet(a.answer) = questions[qi].correct
                    THEN questions[qi].points ELSE 0

\* C7: after gradeAttempt the attempt's totalPointsEarned is the sum of
\* pointsEarned over all its answers, and its score is
\* round(totalPointsEarned / totalPoints * 100).
RECURSIVE SumPointsEarned(_)
SumPointsEarned(as) ==
  IF as = <<>> THEN 0 ELSE Head(as).pointsEarned + SumPointsEarned(Tail(as))

\* The integer nearest to 100 * n / d, a half rounded up (d > 0).
Nearest(n, d) ==
  CHOOSE r \in 0..(100 * n + 1) :
    2 * d * r <= 200 * n + d /\ 200 * n + d < 2 * d * (r + 1)

C7_AttemptTotals ==
  [][\A i \in 1..Len(attempts) :
       GradeAttemptCall(i) =>
         /\ attempts'[i].totalPointsEarned =
              SumPointsEarned(attempts'[i].answers)
         /\ totalPoints > 0 =>
              attempts'[i].score =
                Nearest(attempts'[i].totalPointsEarned, totalPoints)]_vars

\* C8: the score of every graded attempt is an integer from 0 to 100.
Graded(a) == a.status \in {"submitted", "auto_submitted"}

C8_ScoreRange ==
  \A i \in 1..Len(attempts) :
    Graded(attempts[i]) => attempts[i].score \in 0..100

\* C9: grading an essay or code answer keeps the pointsEarned the answer
\* already held and sets isCorrect to pointsEarned >= 0.6 * question.points,
\* whatever the submitted text is.
C9_EssayManual ==
  [][\A i \in 1..Len(attempts) :
       GradeAttemptCall(i) =>
         \A k \in 1..Len(attempts[i].answers) :
           LET a == attempts[i].answers[k]
               a2 == attempts'[i].answers[k]
               qi == QuestionIndex(questions, a.questionId)
           IN  (qi # 0 /\ questions[qi].type \in {"essay", "code"}) =>
                 /\ a2.pointsEarned = a.pointsEarned
                 /\ a2.isCorrect =
                      IF 5 * a.pointsEarned >= 3 * questions[qi].points
                        THEN "true" ELSE "false"]_vars

\* C9 witness: a graded answer to a 10-point essay question holding 7 points
\* is correct.
C9_Witness ==
  /\ grades > 0
  /\ questions[1].type = "essay"
  /\ questions[1].points = 10
  /\ attempts[1].status = "submitted"
  /\ attempts[1].answers[1].pointsEarned = 7
  /\ attempts[1].answers[1].isCorrect = "true"

\* C10: after a recomputation of the analytics, passRate is the share, among
\* the submitted and auto_submitted attempts, of those whose score is at
\* least settings.passingScore.
Recomputed ==
  \/ grades' = grades + 1
  \/ \E i \in 1..Len(attempts) :
       attempts[i].status = "in_progress" /\ attempts'[i].status = "abandoned"

GradedCount(atts) == Cardinality({i \in 1..Len(atts) : Graded(atts[i])})

PassedCount(atts, p) ==
  Cardinality({i \in 1..Len(atts) :
                 Graded(atts[i]) /\ IsNum(atts[i].score) /\ atts[i].score >= p})

C10_PassRate ==
  [][(Recomputed /\ GradedCount(attempts') > 0) =>
       analytics'.passRate.n * GradedCount(attempts') =
         100 * PassedCount(attempts', settings.passingScore)
             * analytics'.passRate.d]_vars

\* C11: a submit by a learner whose recorded submissions have reached
\* settings.maxAttempts is answered with the maximum-attempts error, records
\* no submission and changes no analytics.
AtLimit(u) ==
  Cardinality(UserSubmissions(submissions, u)) >= settings.maxAttempts

C13_SequentialNumbers ==
  \A u \in Users :
    LET mine == UserSubmissions(submissions, u)
    IN  /\ {submissions[i].attemptNumber : i \in mine} = 1..Cardinality(mine)
        /\ \A i, j \in mine :
             i < j => submissions[i].attemptNumber < submissions[j].attemptNumber

\* C14: an attempt that expired is auto_submitted, and a later submit of it
\* (a gradeAttempt call on it) is refused: the attempt stays as it is.
C14_ExpiredStays ==
  [][\A i \in 1..Len(attempts) :
       (attempts[i].status = "auto_submitted" /\ GradeAttemptCall(i)) =>
         attempts'[i] = attempts[i]]_vars

\* C15: when an expiry and a submit meet on one in_progress attempt, one of
\* them commits and the other changes nothing.  In the serial order where
\* the expiry commits first, the submit (a gradeAttempt call) then leaves
\* the attempt's status and score, the question counters and the quiz
\* analytics as one grading left them.
C15_LoserChangesNothing ==
  [][\A i \in 1..Len(attempts) :
       (attempts[i].status = "auto_submitted" /\ GradeAttemptCall(i)) =>
         /\ attempts'[i].status = "auto_submitted"
         /\ attempts'[i].score = attempts[i].score
         /\ \A q \in 1..Len(questions) :
              /\ questions'[q].tot = questions[q].tot
              /\ questions'[q].cor = questions[q].cor
         /\ analytics' = analytics]_vars

\* C16: submit requests whose load and save steps interleave leave the quiz
\* as the same requests leave it when run one after the other: each recorded
\* submission passed the handler's checks against the submissions recorded
\* before it, and the analytics are those the serial run leaves (the handler
\* never writes them).
C16_Serial ==
  /\ \A k \in 1..Len(submissions) :
       SubmitDecision(SubSeq(submissions, 1, k - 1), settings,
                      submissions[k].userId) = "ok"
  /\ analytics = DefaultAnalytics

Semantics(qs) == [i \in 1..Len(qs) |-> [qs[i] EXCEPT !.tot = 0, !.cor = 0]]

C18_FrozenQuestions ==
  [][(\E i \in 1..Len(attempts) : Terminal(attempts[i])) =>
       Semantics(questions') = Semantics(questions)]_vars

\* C19: grading an in_progress attempt that holds an answer to a question
\* the quiz does not have is aborted: no score is committed and the attempt
\* stays in progress.
HasUnknownQuestion(a) ==
  \E k \in 1..Len(a.answers) :
    QuestionIndex(questions, a.answers[k].questionId) = 0

C19_UnknownQuestionAborts ==
  [][\A i \in 1..Len(attempts) :
       (/\ attempts[i].status = "in_progress"
        /\ HasUnknownQuestion(attempts[i])
        /\ GradeAttemptCall(i)) =>
         /\ attempts'[i].status = "in_progress"
         /\ attempts'[i].score = attempts[i].score]_vars

\* C20: when the step after the save (the learner's progress update) fails,
\* the saved submission stays recorded as it is, and the quiz analytics and
\* attempts stay as they are.
C20_FailureKeepsSubmission ==
  [][\A r \in Reqs :
       (reqs[r].pc = "progress" /\ reqs'[r].resp = "500") =>
         /\ submissions' = submissions
         /\ \E k \in 1..Len(submissions') : submissions'[k] = reqs[r].sub
         /\ analytics' = analytics
         /\ attempts' = attempts]_vars

\* C20 witness: a request was answered 500 after its submission was saved,
\* and the submission is recorded.
C20_Witness ==
  \E r \in Reqs :
    /\ reqs[r].resp = "500"
    /\ Len(submissions) >= 1

\* C21: a submit is answered with the per-answer detail only when
\* settings.showResults permits it: never when showResults is 'never'.
C21_DetailGated ==
  [][\A r \in Reqs :
       (reqs[r].pc = "progress" /\ reqs'[r].resp = "200"
        /\ settings.showResults = "never") =>
         ~reqs'[r].detail]_vars

\* C22: the results of a learner with submissions carry totalAttempts, the
\* number of the learner's submissions, and the score, percentage and pass
\* flag of one submission of the learner whose score is the maximum; a
\* learner without a submission gets 'No submissions found'.
C22_BestResult ==
  [][\A r \in Reqs, u \in Users :
       GetResults(r, u) =>
         LET mine == UserSubmissions(submissions, u)
         IN  IF mine = {}
               THEN reqs'[r].resp = "No submissions found"
               ELSE /\ reqs'[r].resp = "results"
                    /\ reqs'[r].count = Cardinality(mine)
                    /\ \A i \in mine :
                         submissions[i].score <= reqs'[r].sub.score
                    /\ \E i \in mine :
                         /\ submissions[i].score = reqs'[r].sub.score
                         /\ submissions[i].percentage = reqs'[r].sub.percentage
                         /\ submissions[i].passed = reqs'[r].sub.passed]_vars

\* C22 witness: results were returned for a learner whose first submission
\* scored 0 and whose second scored 5: two attempts, best score 5.
C22_Witness ==
  \E r \in Reqs :
    /\ reqs[r].resp = "results"
    /\ reqs[r].count = 2
    /\ reqs[r].sub.score = 5
    /\ submissions[1].userId = reqs[r].sub.userId
    /\ submissions[1].score = 0

\* C23: a graded answer to a matching or ordering question is correct, with
\* the question's points, iff the submitted sequence equals the stored key,
\* and incorrect with 0 points otherwise; isCorrect is true or false.
C23_ExactKey ==
  \A i \in 1..Len(attempts) :
    \A k \in 1..Len(attempts[i].answers) :
      LET a == attempts[i].answers[k]
          qi == QuestionIndex(questions, a.questionId)
      IN  (/\ attempts[i].status = "submitted"
           /\ qi # 0
           /\ questions[qi].type \in {"matching", "ordering"})
          => /\ a.isCorrect = BoolStr(a.answer.opts = questions[qi].keyOrder)
             /\ a.pointsEarned =
                  IF a.answer.opts = questions[qi].keyOrder
                    THEN questions[qi].points ELSE 0

\* C24: after a recomputation by gradeAttempt or by an abandon,
\* abandonmentRate is the number of abandoned attempts over the number of
\* all attempts of the quiz (as a percentage), and the score statistics are
\* those of the attempts without the abandoned ones.
NotAbandoned(a) == a.status # "abandoned"

Expired == \E i \in 1..Len(attempts) :
             attempts[i].status = "in_progress"
               /\ attempts'[i].status = "auto_submitted"

C24_AbandonmentRate ==
  [][(Recomputed /\ ~Expired) =>
       LET abandoned == {i \in 1..Len(attempts') :
                           attempts'[i].status = "abandoned"}
           rest == UpdateAnalytics(SelectSeq(attempts', NotAbandoned),
                                   settings, analytics)
       IN  /\ analytics'.abandonmentRate.n * Len(attempts') =
                100 * Cardinality(abandoned) * analytics'.abandonmentRate.d
           /\ analytics'.totalAttempts = rest.totalAttempts
           /\ analytics'.averageScore = rest.averageScore
           /\ analytics'.highestScore = rest.highestScore
           /\ analytics'.lowestScore = rest.lowestScore
           /\ analytics'.passRate = rest.passRate]_vars

\* C24 witness: of two attempts one is abandoned and one submitted: the
\* rate is 50 % and one attempt is counted in the score statistics.
C24_Witness ==
  /\ Len(attempts) = 2
  /\ \E i \in 1..2 : attempts[i].status = "abandoned"
  /\ \E i \in 1..2 : attempts[i].status = "submitted"
  /\ analytics.abandonmentRate = [n |-> 100, d |-> 2]
  /\ analytics.totalAttempts = 1

\* C25: in every state analytics.totalAttempts is the number of submitted
\* and auto_submitted attempts, and averageScore, highestScore and
\* lowestScore are the mean, the maximum and the minimum of their scores.
GradedIndices == {i \in 1..Len(attempts) : Graded(attempts[i])}

RECURSIVE GradedScoreSum(_)
GradedScoreSum(n) ==
  IF n = 0 THEN 0
  ELSE GradedScoreSum(n - 1)
         + (IF Graded(attempts[n]) THEN attempts[n].score ELSE 0)

C25_AnalyticsFresh ==
  /\ analytics.totalAttempts = Cardinality(GradedIndices)
  /\ (GradedIndices # {} /\ \A i \in GradedIndices : IsNum(attempts[i].score)) =>
       /\ analytics.averageScore.n * Cardinality(GradedIndices) =
            GradedScoreSum(Len(attempts)) * analytics.averageScore.d
       /\ \A i \in GradedIndices : attempts[i].score <= analytics.highestScore
       /\ \A i \in GradedIndices : attempts[i].score >= analytics.lowestScore
       /\ \E i \in GradedIndices : attempts[i].score = analytics.highestScore
       /\ \E i \in GradedIndices : attempts[i].score = analytics.lowestScore

\* C26: in every state each question's totalAttempts is the number of
\* answers of graded attempts that reference it, and its correctAttempts is
\* at most its totalAttempts.
GradedAnswersTo(id) ==
  {ik \in (1..Len(attempts)) \X (1..MaxLen) :
     /\ Graded(attempts[ik[1]])
     /\ ik[2] <= Len(attempts[ik[1]].answers)
     /\ attempts[ik[1]].answers[ik[2]].questionId = id}

C26_QuestionCounters ==
  \A q \in 1..Len(questions) :
    /\ questions[q].tot = Cardinality(GradedAnswersTo(questions[q].id))
    /\ questions[q].cor <= questions[q].tot

\* C27: abandoning an in_progress attempt sets its status to abandoned and
\* grades nothing: its score and totalPointsEarned and every question's
\* counters stay, and abandonmentRate is recomputed with this attempt
\* among the abandoned ones.
C27_AbandonFrame ==
  [][\A i \in 1..Len(attempts) :
       (attempts[i].status = "in_progress" /\ AbandonAttempt(i)) =>
         /\ attempts'[i].status = "abandoned"
         /\ attempts'[i].score = attempts[i].score
         /\ attempts'[i].totalPointsEarned = attempts[i].totalPointsEarned
         /\ attempts'[i].answers = attempts[i].answers
         /\ questions' = questions
         /\ analytics'.abandonmentRate.n * Len(attempts') =
              100 * analytics'.abandonmentRate.d
                  * Cardinality({j \in 1..Len(attempts') :
                                   attempts'[j].status = "abandoned"})]_vars

\* C27 witness: an abandoned attempt without a score, counted in the rate.
C27_Witness ==
  \E i \in 1..Len(attempts) :
    /\ attempts[i].status = "abandoned"
    /\ attempts[i].score = Undef
    /\ analytics.abandonmentRate.n > 0

\* C28: a quiz becomes published from draft only (or is created so); no
\* step publishes an archived quiz.
C28_ArchivedStays ==
  [][/\ status = "archived" => status' # "published"
     /\ (status # "published" /\ status' = "published") =>
          status \in {"none", "draft"}]_vars

\* C29: a quiz is created only when its questions are well-formed: every
\* choice question has two options at least and an option flagged correct.
WellFormed(q) ==
  q.type \in {"multiple_choice", "single_choice"} =>
    (Cardinality(q.options) >= 2 /\ q.correct \cap q.options # {})

C29_CreateValidates ==
  [][(status = "none" /\ status' # "none") =>
       \A q \in 1..Len(questions') : WellFormed(questions'[q])]_vars

\* C30: for the same quiz and the same answers, the score the submit
\* handler records is the total gradeAttempt computes, and its passed flag
\* is the outcome gradeAttempt's score has against settings.passingScore.
C30_GradingsAgree ==
  [][\A r \in Reqs, u \in Users, inp \in AttemptInputs :
       (SubmitBegin(r, u, inp.answers) /\ reqs'[r].pc = "saving") =>
         LET g == GradeLoop(questions, inp.answers, 1, 0)
         IN  /\ reqs'[r].sub.score = g.total
             /\ reqs'[r].sub.passed =
                  ScoreAtLeast(ScoreOf(g.total, totalPoints),
                               settings.passingScore)]_vars

====
